---- MODULE Spec2Model ----
(***************************************************************************)
(* Hellwig's method (hellwig.py): main, hellwig, hellwig_singular and      *)
(* combination, with the joblib worker pools of main and hellwig.          *)
(*                                                                         *)
(* Columns of the dataset are numbered: column 0 is the dependent          *)
(* variable, columns 1..NumVars are the other columns in file order.       *)
(* A correlation r is held as the integer r * One; a capacity is an exact  *)
(* fraction in lowest terms (floating-point rounding is not modelled),     *)
(* extended with inf and nan for numpy's division by zero.                 *)
(***************************************************************************)
EXTENDS Integers, Sequences, FiniteSets, TLC

\* Number of non-dependent columns of the dataset.
NumVars == 3
\* Largest value of the -min / -max command-line arguments explored.
MaxArg == 3

\* The dependent column (dependent_var).
dependent_var == 0
\* Fixed-point image of the correlation 1.0 (the diagonal of DataFrame.corr()).
One == 8
\* Correlations of a column with the dependent column, times One.
YxVals == {-2, 1}
\* Correlations between two distinct independent columns, times One:
\* the columns of a group are correlated with each other, the others with none.
XxVals == {-2, 0}

IndependentColumns == 1..NumVars

VARIABLES
    pc,                   \* position in main / hellwig
    caller,               \* "main": hellwig called from main; "direct": called as a function
    numpy,                \* TRUE when the tables hold numpy floats (pandas), FALSE for Python floats
    min, max,             \* arguments of main
    independent_vars_arg, \* the -id argument (<<>> when not given)
    loaded,               \* the csv file has been read
    df,                   \* correlation structure of the dataset read
    independent_vars,     \* the candidate pool
    yx_corrs,             \* dependent_var_correlation_matrix
    sizes,                \* range(...) of line 64
    combinations,         \* results of the combination tasks, in dispatch order
    enum_pending,         \* indices of combination tasks still running
    correlation_matrix,   \* independent_df.corr()
    idx,                  \* index of the element of var_combinations hellwig is at
    h,                    \* results of the hellwig_singular tasks of this element
    best_info,            \* per-size bests
    result,               \* value returned by hellwig
    error,                \* exception that ended the run, "none" otherwise
    printed               \* main printed the result

vars == <<pc, caller, numpy, min, max, independent_vars_arg, loaded, df,
          independent_vars, yx_corrs, sizes, combinations, enum_pending,
          correlation_matrix, idx, h, best_info, result, error, printed>>

----------------------------------------------------------------------------
\* Numbers

Abs(x) == IF x < 0 THEN -x ELSE x

RECURSIVE GCD(_, _)
GCD(a, b) == IF b = 0 THEN a ELSE GCD(b, a % b)

Inf == [k |-> "inf", n |-> 1, d |-> 0]
NaN == [k |-> "nan", n |-> 0, d |-> 0]
Raise == [k |-> "ZeroDivisionError", n |-> 0, d |-> 0]

\* The non-negative fraction n/d (d > 0) in lowest terms.
Fin(n, d) == LET g == GCD(n, d) IN [k |-> "fin", n |-> n \div g, d |-> d \div g]

Zero == Fin(0, 1)

\* a + b for non-negative extended values.
Add(a, b) ==
    IF a.k = "nan" \/ b.k = "nan" THEN NaN
    ELSE IF a.k = "inf" \/ b.k = "inf" THEN Inf
    ELSE Fin(a.n * b.d + b.n * a.d, a.d * b.d)

\* a / b: Python floats raise on a zero divisor, numpy floats give inf or nan.
Div(a, b, np) ==
    IF b.n = 0
    THEN IF ~np THEN Raise ELSE IF a.n = 0 THEN NaN ELSE Inf
    ELSE Fin(a.n * b.d, a.d * b.n)

\* a > b as floats compare: every comparison with nan is false.
Gt(a, b) ==
    IF a.k = "nan" \/ b.k = "nan" THEN FALSE
    ELSE IF a.k = "inf" THEN b.k # "inf"
    ELSE IF b.k = "inf" THEN FALSE
    ELSE a.n * b.d > b.n * a.d

----------------------------------------------------------------------------
\* combination(iterable, n): itertools.combinations in its enumeration order

RECURSIVE Combos(_, _)
Combos(s, k) ==
    IF k = 0 THEN << <<>> >>
    ELSE IF Len(s) < k THEN << >>
    ELSE LET with == Combos(Tail(s), k - 1)
             rest == Combos(Tail(s), k)
         IN [i \in 1..Len(with) |-> <<Head(s)>> \o with[i]] \o rest

combination(iterable, n) == Combos(iterable, n)

\* range(lo, hi)
Range(lo, hi) == IF hi > lo THEN [i \in 1..(hi - lo) |-> lo + i - 1] ELSE << >>

\* Variant: the default stop is the pool size itself, so size N is left out.
SizeRangeExclusive(mn, mx, n) == Range(mn, IF mx < 1 THEN n ELSE mx)

\* range(min, len(independent_vars)+1 if max < 1 else max)
SizeRange(mn, mx, n) == Range(mn, IF mx < 1 THEN n + 1 ELSE mx)

\* Variant: only negative values are rejected.
MinNegative(mn) == mn < 0

\* min < 1 of main
MinTooSmall(mn) == mn < 1

----------------------------------------------------------------------------
\* hellwig_singular

RECURSIVE DenominatorSigned(_, _, _)
\* Variant: the correlations are summed with their signs.
DenominatorSigned(cm, c, i) ==
    IF i = 0 THEN 0 ELSE DenominatorSigned(cm, c, i - 1) + cm[c[1]][c[i]]

RECURSIVE Denominator(_, _, _)
\* denominator after the first i variables of c: sum of |correlation_matrix[c[1]][var]|
Denominator(cm, c, i) ==
    IF i = 0 THEN 0 ELSE Denominator(cm, c, i - 1) + Abs(cm[c[1]][c[i]])

RECURSIVE Capacity(_, _, _, _, _)
\* h after the first i variables of c: h += (yx[var]**2)/denominator
Capacity(yx, c, den, np, i) ==
    IF i = 0 THEN Zero
    ELSE LET before == Capacity(yx, c, den, np, i - 1)
             term   == Div(Fin(yx[c[i]] * yx[c[i]], One * One), Fin(den, One), np)
         IN IF before.k = "ZeroDivisionError" \/ term.k = "ZeroDivisionError"
            THEN Raise
            ELSE Add(before, term)

\* A lookup of a variable that is no column of the table raises KeyError.
HasKeys(cm, yx, c) ==
    \A i \in 1..Len(c) : c[i] \in DOMAIN cm /\ c[i] \in DOMAIN yx

hellwig_singular(cm, yx, c, np) ==
    IF ~HasKeys(cm, yx, c)
    THEN [comb |-> c, cap |-> Zero, err |-> "KeyError"]
    ELSE LET cap == Capacity(yx, c, Denominator(cm, c, Len(c)), np, Len(c))
         IN IF cap.k = "ZeroDivisionError"
            THEN [comb |-> c, cap |-> Zero, err |-> "ZeroDivisionError"]
            ELSE [comb |-> c, cap |-> cap, err |-> "none"]

----------------------------------------------------------------------------
\* max(seq, key=itemgetter(1)) and the collection of the workers' results

\* Variant: an item of equal key replaces the incumbent (last one wins).
ReplacesOnTie(item, incumbent) == ~Gt(incumbent.cap, item.cap)

\* The incumbent is replaced only by an item whose key is greater.
Replaces(item, incumbent) == Gt(item.cap, incumbent.cap)

RECURSIVE MaxUpTo(_, _)
MaxUpTo(seq, i) ==
    IF i = 1 THEN seq[1]
    ELSE LET incumbent == MaxUpTo(seq, i - 1)
         IN IF Replaces(seq[i], incumbent) THEN seq[i] ELSE incumbent

\* max over a non-empty sequence
MaxByCapacity(seq) == MaxUpTo(seq, Len(seq))

\* A slot of a Parallel call whose task has not finished.
Pending == [comb |-> << >>, cap |-> Zero, err |-> "pending"]

PendingSlots(slots) == {j \in 1..Len(slots) : slots[j].err = "pending"}

\* Variant: the results stand in the order the tasks finished.
CollectInCompletionOrder(slots, j, r) ==
    LET free == CHOOSE m \in PendingSlots(slots) : \A x \in PendingSlots(slots) : m <= x
    IN [slots EXCEPT ![free] = r]

\* Parallel returns the results in the order the tasks were dispatched.
Collect(slots, j, r) == [slots EXCEPT ![j] = r]

----------------------------------------------------------------------------
\* The dataset

Pairs == {p \in IndependentColumns \X IndependentColumns : p[1] < p[2]}

\* The symmetric matrix with diagonal dg and off-diagonal entries f.
Matrix(dg, f) ==
    [a \in IndependentColumns |-> [b \in IndependentColumns |->
        IF a = b THEN dg[a] ELSE IF a < b THEN f[<<a, b>>] ELSE f[<<b, a>>]]]

\* The groups of mutually correlated columns a dataset may have.
Groups == {G \in SUBSET IndependentColumns : Cardinality(G) # 1}

GroupCorr(G) ==
    [p \in Pairs |-> IF p[1] \in G /\ p[2] \in G
                     THEN CHOOSE x \in XxVals : x # 0
                     ELSE 0]

\* What pandas computes from a dataset: corr(a, a) = 1, corr(a, b) = corr(b, a).
Datasets ==
    {[yx |-> y, xx |-> Matrix([a \in IndependentColumns |-> One], GroupCorr(G))] :
        y \in [IndependentColumns -> YxVals], G \in Groups}

NoData == [yx |-> << >>, xx |-> << >>]

\* df.drop(dependent_var, axis=1).keys()
DefaultPool == [i \in 1..NumVars |-> i]

\* Values of the -id argument: not given, two columns in reverse file order,
\* a list that names the dependent column.
IdArgs == {<< >>, <<NumVars, 1>>, <<1, dependent_var>>}

SeqRange(s) == {s[i] : i \in 1..Len(s)}

----------------------------------------------------------------------------
\* Initial states

Unset ==
    /\ loaded = FALSE
    /\ df = NoData
    /\ independent_vars = << >>
    /\ yx_corrs = << >>
    /\ sizes = << >>
    /\ combinations = << >>
    /\ enum_pending = {}
    /\ correlation_matrix = << >>
    /\ idx = 0
    /\ h = << >>
    /\ best_info = << >>
    /\ result = Pending
    /\ error = "none"
    /\ printed = FALSE

\* main is entered with its arguments.
Init ==
    /\ pc = "main"
    /\ caller = "main"
    /\ numpy = TRUE
    /\ min \in 0..MaxArg
    /\ max \in -1..MaxArg
    /\ independent_vars_arg \in IdArgs
    /\ Unset

----------------------------------------------------------------------------
\* main

\* lines 51-52: if min < 1: raise ValueError
CheckMin ==
    /\ pc = "main"
    /\ IF MinTooSmall(min)
       THEN pc' = "done" /\ error' = "ValueError"
       ELSE pc' = "read" /\ error' = error
    /\ UNCHANGED <<caller, numpy, min, max, independent_vars_arg, loaded, df,
                   independent_vars, yx_corrs, sizes, combinations, enum_pending,
                   correlation_matrix, idx, h, best_info, result, printed>>

\* lines 53-58: read the file, split off the dependent column, choose the pool
ReadCsv ==
    /\ pc = "read"
    /\ \E d \in Datasets : df' = d
    /\ loaded' = TRUE
    /\ independent_vars' =
          IF Len(independent_vars_arg) < 1 THEN DefaultPool ELSE independent_vars_arg
    /\ pc' = "yx"
    /\ UNCHANGED <<caller, numpy, min, max, independent_vars_arg, yx_corrs, sizes,
                   combinations, enum_pending, correlation_matrix, idx, h,
                   best_info, result, error, printed>>

\* df[dependent_var].corr(df[var])
YxCorr(d, var) == IF var = dependent_var THEN One ELSE d.yx[var]

\* lines 60-62: yx_corrs[var] for every var of the pool
CorrelateYx ==
    /\ pc = "yx"
    /\ yx_corrs' = [var \in SeqRange(independent_vars) |-> YxCorr(df, var)]
    /\ pc' = "dispatch"
    /\ UNCHANGED <<caller, numpy, min, max, independent_vars_arg, loaded, df,
                   independent_vars, sizes, combinations, enum_pending,
                   correlation_matrix, idx, h, best_info, result, error, printed>>

\* line 64: Parallel(...)(delayed(combination)(independent_vars, i) for i in range(...))
DispatchCombinations ==
    /\ pc = "dispatch"
    /\ sizes' = SizeRange(min, max, Len(independent_vars))
    /\ combinations' = [i \in 1..Len(sizes') |-> << >>]
    /\ enum_pending' = 1..Len(sizes')
    /\ pc' = "enumerate"
    /\ UNCHANGED <<caller, numpy, min, max, independent_vars_arg, loaded, df,
                   independent_vars, yx_corrs, correlation_matrix, idx, h,
                   best_info, result, error, printed>>

\* line 64: one combination task finishes
CombinationWorker(i) ==
    /\ pc = "enumerate"
    /\ i \in enum_pending
    /\ combinations' = [combinations EXCEPT ![i] = combination(independent_vars, sizes[i])]
    /\ enum_pending' = enum_pending \ {i}
    /\ UNCHANGED <<pc, caller, numpy, min, max, independent_vars_arg, loaded, df,
                   independent_vars, yx_corrs, sizes, correlation_matrix, idx, h,
                   best_info, result, error, printed>>

\* line 66: independent_df.corr() is computed and hellwig is called
CallHellwig ==
    /\ pc = "enumerate"
    /\ enum_pending = {}
    /\ correlation_matrix' = df.xx
    /\ best_info' = << >>
    /\ idx' = 1
    /\ pc' = "loop"
    /\ UNCHANGED <<caller, numpy, min, max, independent_vars_arg, loaded, df,
                   independent_vars, yx_corrs, sizes, combinations, enum_pending,
                   h, result, error, printed>>

\* line 67: print(list(best_info[0]), best_info[1])
WriteResult ==
    /\ pc = "return"
    /\ caller = "main"
    /\ printed' = TRUE
    /\ pc' = "done"
    /\ UNCHANGED <<caller, numpy, min, max, independent_vars_arg, loaded, df,
                   independent_vars, yx_corrs, sizes, combinations, enum_pending,
                   correlation_matrix, idx, h, best_info, result, error>>

----------------------------------------------------------------------------
\* hellwig

\* line 72: the hellwig_singular tasks of one element of var_combinations are dispatched
DispatchScoring ==
    /\ pc = "loop"
    /\ idx <= Len(combinations)
    /\ h' = [j \in 1..Len(combinations[idx]) |-> Pending]
    /\ pc' = "score"
    /\ UNCHANGED <<caller, numpy, min, max, independent_vars_arg, loaded, df,
                   independent_vars, yx_corrs, sizes, combinations, enum_pending,
                   correlation_matrix, idx, best_info, result, error, printed>>

\* line 72: one hellwig_singular task finishes; an exception in it ends the run
ScoringWorker(j) ==
    /\ pc = "score"
    /\ j \in PendingSlots(h)
    /\ LET r == hellwig_singular(correlation_matrix, yx_corrs, combinations[idx][j], numpy)
       IN IF r.err # "none"
          THEN /\ error' = r.err
               /\ pc' = "done"
               /\ h' = h
          ELSE /\ h' = Collect(h, j, r)
               /\ UNCHANGED <<pc, error>>
    /\ UNCHANGED <<caller, numpy, min, max, independent_vars_arg, loaded, df,
                   independent_vars, yx_corrs, sizes, combinations, enum_pending,
                   correlation_matrix, idx, best_info, result, printed>>

\* lines 73-74: h = max(h, key=itemgetter(1)); best_info.append(h)
BestOfSize ==
    /\ pc = "score"
    /\ PendingSlots(h) = {}
    /\ IF Len(h) = 0
       THEN /\ error' = "ValueError"
            /\ pc' = "done"
            /\ UNCHANGED <<best_info, idx>>
       ELSE /\ best_info' = Append(best_info, MaxByCapacity(h))
            /\ idx' = idx + 1
            /\ pc' = "loop"
            /\ error' = error
    /\ UNCHANGED <<caller, numpy, min, max, independent_vars_arg, loaded, df,
                   independent_vars, yx_corrs, sizes, combinations, enum_pending,
                   correlation_matrix, h, result, printed>>

\* lines 75-76: best_info = max(best_info, key=itemgetter(1)); return best_info
BestOfAll ==
    /\ pc = "loop"
    /\ idx > Len(combinations)
    /\ IF Len(best_info) = 0
       THEN /\ error' = "ValueError"
            /\ pc' = "done"
            /\ result' = result
       ELSE /\ result' = MaxByCapacity(best_info)
            /\ pc' = "return"
            /\ error' = error
    /\ UNCHANGED <<caller, numpy, min, max, independent_vars_arg, loaded, df,
                   independent_vars, yx_corrs, sizes, combinations, enum_pending,
                   correlation_matrix, idx, h, best_info, printed>>

HellwigNext ==
    \/ DispatchScoring
    \/ \E j \in 1..Len(h) : ScoringWorker(j)
    \/ BestOfSize
    \/ BestOfAll

Next ==
    \/ CheckMin
    \/ ReadCsv
    \/ CorrelateYx
    \/ DispatchCombinations
    \/ \E i \in 1..Len(sizes) : CombinationWorker(i)
    \/ CallHellwig
    \/ DispatchScoring
    \/ \E j \in 1..Len(h) : ScoringWorker(j)
    \/ BestOfSize
    \/ BestOfAll
    \/ WriteResult

Spec == Init /\ [][Next]_vars

----------------------------------------------------------------------------
\* hellwig called as a function, with tables of the caller's making

\* Tables a caller may pass: any symmetric table, the diagonal included.
DirectMatrices ==
    {Matrix(dg, f) : dg \in [IndependentColumns -> {0, One}], f \in [Pairs -> XxVals]}

DirectVectors == [IndependentColumns -> {-2, 0}]

\* var_combinations: the combinations of the sizes lo..hi of all columns
DirectSizes == {Range(lo, hi + 1) : lo \in 1..NumVars, hi \in 1..NumVars} \ {<< >>}

InitHellwig ==
    /\ pc = "loop"
    /\ caller = "direct"
    /\ numpy \in BOOLEAN
    /\ min = 1
    /\ max = -1
    /\ independent_vars_arg = << >>
    /\ loaded = FALSE
    /\ df = NoData
    /\ independent_vars = DefaultPool
    /\ yx_corrs \in DirectVectors
    /\ sizes \in DirectSizes
    /\ combinations = [i \in 1..Len(sizes) |-> combination(independent_vars, sizes[i])]
    /\ enum_pending = {}
    /\ correlation_matrix \in DirectMatrices
    /\ idx = 1
    /\ h = << >>
    /\ best_info = << >>
    /\ result = Pending
    /\ error = "none"
    /\ printed = FALSE

SpecHellwig == InitHellwig /\ [][HellwigNext]_vars

----------------------------------------------------------------------------
\* Reference definitions used by the properties

RECURSIVE SumTo(_, _)
\* f[1] + ... + f[n]
SumTo(f, n) == IF n = 0 THEN 0 ELSE f[n] + SumTo(f, n - 1)

\* D = sum over v in C of |corr(v_1, v)|, times One
RefDenominator(cm, c) == SumTo([i \in 1..Len(c) |-> Abs(cm[c[1]][c[i]])], Len(c))

\* sum over v in C of yx[v]^2, times One * One
SumOfSquares(yx, c) == SumTo([i \in 1..Len(c) |-> yx[c[i]] * yx[c[i]]], Len(c))

\* cap = (sum of squares) / D, as an equation between integers
IsHellwigCapacity(cap, cm, yx, c) ==
    /\ cap.k = "fin"
    /\ cap.n * One * RefDenominator(cm, c) = cap.d * SumOfSquares(yx, c)

UnitDiagonal(cm) == \A a \in DOMAIN cm : cm[a][a] = One

\* The run is over: main raised or printed, or hellwig returned to its caller.
Ended == pc = "done" \/ (pc = "return" /\ caller = "direct")

\* hellwig has been entered from main.
InHellwig == loaded /\ pc \in {"loop", "score", "return", "done"}

\* The capacity hellwig_singular gives combination j of element i of var_combinations.
Score(i, j) ==
    hellwig_singular(correlation_matrix, yx_corrs, combinations[i][j], numpy).cap

\* What a run without workers computes, element by element.
SeqCombinations == [i \in 1..Len(sizes) |-> combination(independent_vars, sizes[i])]

SeqScores(i) ==
    [j \in 1..Len(SeqCombinations[i]) |->
        hellwig_singular(correlation_matrix, yx_corrs, SeqCombinations[i][j], numpy)]

SeqRaises(i) ==
    \/ Len(SeqScores(i)) = 0
    \/ \E j \in 1..Len(SeqScores(i)) : SeqScores(i)[j].err # "none"

SeqError(i) ==
    IF Len(SeqScores(i)) = 0 THEN "ValueError"
    ELSE LET j == CHOOSE j \in 1..Len(SeqScores(i)) :
                    /\ SeqScores(i)[j].err # "none"
                    /\ \A l \in 1..(j - 1) : SeqScores(i)[l].err = "none"
         IN SeqScores(i)[j].err

SeqBests == [i \in 1..Len(sizes) |-> MaxByCapacity(SeqScores(i))]

AllCombinations(lo, hi) ==
    UNION {SeqRange(combination(independent_vars, k)) : k \in lo..hi}

----------------------------------------------------------------------------
\* Properties

\* C1: when main is run with an explicit max and 1 <= min <= max <= |pool|, the
\* capacity hellwig returns is at least the capacity of every combination of
\* every size min..max, the size max included.
C1_ReturnedCapacityIsMaximal ==
    (pc = "done" /\ error = "none" /\ loaded
        /\ max >= 1 /\ min <= max /\ max <= Len(independent_vars))
    => \A c \in AllCombinations(min, max) :
          ~Gt(hellwig_singular(correlation_matrix, yx_corrs, c, numpy).cap, result.cap)

\* C2: main run with min = 1 and max = 1 returns the single variable whose
\* squared correlation with the dependent variable is maximal over the pool,
\* with that squared correlation as its score.
C2_SingleVariableSearchReturnsBest ==
    (pc = "done" /\ loaded /\ min = 1 /\ max = 1
        /\ dependent_var \notin SeqRange(independent_vars))
    => /\ error = "none"
       /\ Len(result.comb) = 1
       /\ result.cap = Fin(yx_corrs[result.comb[1]] * yx_corrs[result.comb[1]], One * One)
       /\ \A v \in SeqRange(independent_vars) :
             yx_corrs[v] * yx_corrs[v] <= yx_corrs[result.comb[1]] * yx_corrs[result.comb[1]]

\* C3: for a correlation matrix with corr(a, a) = 1, hellwig_singular returns the
\* combination in its given order with H = (sum of yx[v]^2) / D, where D is the
\* sum of |corr(v_1, v)| over the combination; for a single variable H = yx[v]^2.
C3_ScoreIsHellwigCapacity ==
    (InHellwig /\ UnitDiagonal(correlation_matrix))
    => /\ pc = "score" =>
             \A j \in 1..Len(h) : h[j] # Pending =>
                /\ h[j].comb = combinations[idx][j]
                /\ IsHellwigCapacity(h[j].cap, correlation_matrix, yx_corrs, h[j].comb)
       /\ pc # "score" => \A i \in 1..Len(best_info) :
             /\ IsHellwigCapacity(best_info[i].cap, correlation_matrix, yx_corrs,
                                  best_info[i].comb)
             /\ Len(best_info[i].comb) = 1 =>
                   best_info[i].cap.n * One * One =
                      best_info[i].cap.d * yx_corrs[best_info[i].comb[1]]
                                         * yx_corrs[best_info[i].comb[1]]

\* C3 witness: a combination of two variables with different correlations to the
\* dependent variable and a negative correlation between them has been scored.
C3_Witness ==
    /\ InHellwig /\ pc = "score" /\ UnitDiagonal(correlation_matrix)
    /\ \E j \in 1..Len(h) :
          /\ h[j] # Pending
          /\ Len(h[j].comb) = 2
          /\ correlation_matrix[h[j].comb[1]][h[j].comb[2]] < 0
          /\ yx_corrs[h[j].comb[1]] # yx_corrs[h[j].comb[2]]

\* C4: ties are resolved first-encountered-wins at both levels: each per-size
\* best is the earliest combination of its size, in enumeration order, that no
\* combination of the size exceeds, and the returned result is the per-size
\* best of the smallest size that no per-size best exceeds.
C4_FirstEncounteredWins ==
    (InHellwig /\ pc # "score") =>
       /\ \A a, b \in 1..Len(sizes) : a < b => sizes[a] < sizes[b]
       /\ \A i \in 1..Len(best_info) :
             \E j \in 1..Len(combinations[i]) :
                /\ best_info[i].comb = combinations[i][j]
                /\ best_info[i].cap = Score(i, j)
                /\ \A l \in 1..Len(combinations[i]) :
                      /\ ~Gt(Score(i, l), Score(i, j))
                      /\ l < j => Gt(Score(i, j), Score(i, l))
       /\ (Ended /\ error = "none") =>
             \E i \in 1..Len(best_info) :
                /\ result = best_info[i]
                /\ \A l \in 1..Len(best_info) :
                      /\ ~Gt(best_info[l].cap, result.cap)
                      /\ l < i => Gt(result.cap, best_info[l].cap)

\* C4 witness: a run returned a result although a size had two combinations of
\* equal maximal capacity and two per-size bests had the maximal capacity.
C4_Witness ==
    /\ InHellwig /\ Ended /\ error = "none"
    /\ \E i \in 1..Len(best_info) : \E j, l \in 1..Len(combinations[i]) :
          j < l /\ Score(i, j) = best_info[i].cap /\ Score(i, l) = best_info[i].cap
    /\ \E a, b \in 1..Len(best_info) :
          a < b /\ best_info[a].cap = result.cap /\ best_info[b].cap = result.cap
                /\ result = best_info[a]

\* C5: main called with min < 1 raises before the dataset is read: nothing is
\* loaded, no correlation is computed, no combination is scored, nothing is printed.
C5_MinBelowOneRaisesFirst ==
    min < 1 =>
       /\ pc \in {"main", "done"}
       /\ pc = "done" => error = "ValueError"
       /\ ~loaded /\ df = NoData
       /\ yx_corrs = << >> /\ correlation_matrix = << >>
       /\ combinations = << >> /\ h = << >> /\ best_info = << >>
       /\ result = Pending /\ ~printed

\* C5 witness: a run with min < 1 has ended with the error.
C5_Witness == min < 1 /\ pc = "done" /\ error = "ValueError" /\ ~loaded

\* C6: main called with min > max (max given) or with max greater than the pool
\* size is rejected before any correlation is computed, and prints nothing.
C6_BadBoundsRejectedBeforeCorrelation ==
    (loaded /\ max >= 1 /\ (min > max \/ max > Len(independent_vars)))
    => /\ yx_corrs = << >>
       /\ correlation_matrix = << >>
       /\ ~printed
       /\ pc = "done" => error # "none"

C8_PoolExcludesDependentVariable ==
    loaded =>
       /\ dependent_var \notin SeqRange(independent_vars)
       /\ \A i \in 1..Len(combinations) : \A j \in 1..Len(combinations[i]) :
             dependent_var \notin SeqRange(combinations[i][j])
       /\ dependent_var \notin SeqRange(result.comb)

\* C9: whatever order the combination tasks and the hellwig_singular tasks
\* finish in, their results stand in dispatch order and the run's outcome is that
\* of a run without workers; the shared tables are never modified.
C9_OutcomeIndependentOfInterleaving ==
    /\ (loaded /\ pc = "enumerate") =>
          \A i \in 1..Len(sizes) : i \notin enum_pending =>
             combinations[i] = SeqCombinations[i]
    /\ InHellwig =>
          /\ correlation_matrix = df.xx
          /\ yx_corrs = [var \in SeqRange(independent_vars) |-> YxCorr(df, var)]
          /\ pc = "score" =>
                \A j \in 1..Len(h) : h[j] # Pending => h[j] = SeqScores(idx)[j]
          /\ pc # "score" =>
                /\ combinations = SeqCombinations
                /\ \A i \in 1..Len(best_info) : best_info[i] = SeqBests[i]
          /\ (Ended /\ error = "none") =>
                /\ \A i \in 1..Len(sizes) : ~SeqRaises(i)
                /\ result = MaxByCapacity(SeqBests)
          /\ (Ended /\ error # "none") =>
                \/ Len(sizes) = 0 /\ error = "ValueError"
                \/ \E i \in 1..Len(sizes) :
                      /\ SeqRaises(i)
                      /\ \A l \in 1..(i - 1) : ~SeqRaises(l)
                      /\ error = SeqError(i)

\* C9 witness: a hellwig_singular task has finished before one dispatched earlier.
C9_Witness ==
    /\ InHellwig /\ pc = "score"
    /\ \E j, l \in 1..Len(h) : j < l /\ h[j] = Pending /\ h[l] # Pending
    /\ Len(best_info) >= 1

\* C10: with max < 1 main treats max as the pool size N: the sizes dispatched are
\* min, min+1, ..., N, each once and ascending, the full pool is among the
\* combinations handed to hellwig when min <= N, and a run that returns has
\* one per-size best for each of these sizes, in that order.
C10_DefaultMaxIsPoolSize ==
    LET N == Len(independent_vars)
    IN (loaded /\ max < 1 /\ pc \notin {"read", "yx", "dispatch"}) =>
          /\ Len(sizes) = (IF min <= N THEN N - min + 1 ELSE 0)
          /\ \A i \in 1..Len(sizes) : sizes[i] = min + i - 1
          /\ InHellwig =>
                /\ \A i \in 1..Len(sizes) :
                      combinations[i] = combination(independent_vars, min + i - 1)
                /\ min <= N => combinations[Len(sizes)] = <<independent_vars>>
          /\ (Ended /\ error = "none") =>
                /\ Len(best_info) = N - min + 1
                /\ \A i \in 1..Len(best_info) : Len(best_info[i].comb) = min + i - 1

\* C10 witness: a run with max < 1 and min > 1 has printed a result.
C10_Witness ==
    /\ loaded /\ max < 1 /\ min > 1 /\ pc = "done" /\ error = "none" /\ printed
    /\ Len(best_info) = Len(independent_vars) - min + 1

====
